---- MODULE Spec2Model ----
(***************************************************************************)
(* Spelling Snake: the terminal game (snake_game.py: Snake, Game,          *)
(* key_listener, main) and the GUI game (snake_game_gui.py: SnakeGame).    *)
(* A behaviour is a run of one of the two programs.  Grid positions and    *)
(* directions are pairs <<row, col>>; Python's None is the empty tuple.    *)
(* Time is counted in units of 1/TimeUnit second, so that the truncation   *)
(* int(20 - elapsed) of a fractional elapsed time is modelled; now is the  *)
(* value time.time() returns, counted from the creation of the session;    *)
(* stats_file is the content of the statistics file; timers is the number  *)
(* of game_loop callbacks Tk holds for master.after(GAME_SPEED, ...).       *)
(***************************************************************************)
EXTENDS Integers, Sequences, FiniteSets, TLC

VARIABLES game, listener, gui, now, stats_file, timers

vars == <<game, listener, gui, now, stats_file, timers>>

None == <<>>

\* ---------------------------------------------------------------- bounds
\* The grids are scaled down from 20x10 (terminal) and 20x15 (GUI).
HEIGHT == 2
WIDTH == 2
GRID_HEIGHT == 2
GRID_WIDTH == 3
\* The grid of snake_game.py as it is in the source.
SOURCE_HEIGHT == 10
SOURCE_WIDTH == 20
\* How far from its start, in rows and in columns, a snake is followed when
\* its methods are called outside of a session.
MaxMoves == 3
\* The highest score of a session handed to update_stats on its own.
MaxScore == 2
\* Length of the longest target word a session is given.
MaxWordLen == 2
\* Clock readings per second.
TimeUnit == 2
\* A new session is started as long as the file records fewer completions.
MaxCompleted == 2
\* A new GUI session is started as long as Tk holds fewer game_loop callbacks.
MaxTimers == 2

\* ------------------------------------------------------------- constants
UP == <<-1, 0>>
DOWN == <<1, 0>>
LEFT == <<0, -1>>
RIGHT == <<0, 1>>

Directions == {UP, DOWN, LEFT, RIGHT}

Opposite(d) == <<-d[1], -d[2]>>

Difficulties == {"easy", "medium", "hard"}

difficulty_multiplier(difficulty) ==
  CASE difficulty = "easy" -> 1
    [] difficulty = "medium" -> 2
    [] difficulty = "hard" -> 3

\* Target words: the words of the lists and custom entries, cut to one letter
\* (the shortest a custom word can be) and to MaxWordLen letters.
Letters == <<"c", "a", "t", "s", "n", "k", "e">>

Words == {SubSeq(Letters, 1, n) : n \in {1, MaxWordLen}}

\* What the player can type for a custom word: a word in lower or upper case,
\* with or without blanks around it, nothing, or blanks only.
Blank == " "

upper_case(word) ==
  [i \in 1..Len(word) |->
     CASE word[i] = "c" -> "C" [] word[i] = "a" -> "A" [] word[i] = "t" -> "T"
       [] word[i] = "s" -> "S" [] word[i] = "n" -> "N" [] word[i] = "k" -> "K"
       [] word[i] = "e" -> "E"]

Entries ==
  Words \cup {upper_case(w) : w \in Words}
    \cup {<<Blank>> \o w \o <<Blank>> : w \in Words}
    \cup {<<>>, <<Blank>>, <<Blank, Blank>>}

\* str.strip of blanks.
RECURSIVE lstrip(_)
lstrip(text) ==
  IF text # <<>> /\ Head(text) = Blank THEN lstrip(Tail(text)) ELSE text

RECURSIVE rstrip(_)
rstrip(text) ==
  IF text # <<>> /\ text[Len(text)] = Blank
  THEN rstrip(SubSeq(text, 1, Len(text) - 1))
  ELSE text

strip(text) == rstrip(lstrip(text))

\* str.lower on what can be typed.
lower(text) ==
  [i \in 1..Len(text) |->
     CASE text[i] = "C" -> "c" [] text[i] = "A" -> "a" [] text[i] = "T" -> "t"
       [] text[i] = "S" -> "s" [] text[i] = "N" -> "n" [] text[i] = "K" -> "k"
       [] text[i] = "E" -> "e" [] OTHER -> text[i]]

\* Readings of time.time(): the instant the program starts, a fraction of a
\* second later, the 20 s limit of the letter bonus and the 100 s limit of the
\* completion bonus.
TimePoints == {0, 1, 20 * TimeUnit, 100 * TimeUnit}

\* The bonus without the clip at 0.
time_bonus_unclipped(limit, elapsed) ==
  (limit * TimeUnit - elapsed) \div TimeUnit

\* The bonus counted from the whole seconds of the elapsed time.
time_bonus_whole_seconds(limit, elapsed) ==
  IF elapsed \div TimeUnit >= limit THEN 0
  ELSE limit - elapsed \div TimeUnit

\* int(limit - elapsed) clipped at 0, for an elapsed time in clock units:
\* max(0, int(limit - elapsed)), int() truncating towards zero.
time_bonus(limit, elapsed) ==
  IF elapsed >= limit * TimeUnit THEN 0
  ELSE (limit * TimeUnit - elapsed) \div TimeUnit

\* ------------------------------------------------------------------ Snake
\* Snake with the start position read as (column, row).
Snake_column_first(start_pos) ==
  [body |-> <<<<start_pos[2], start_pos[1]>>>>, direction |-> RIGHT,
   grow_next |-> FALSE, body_length |-> 1]

Snake(start_pos) ==
  [body |-> <<start_pos>>, direction |-> RIGHT, grow_next |-> FALSE,
   body_length |-> 1]

head(s) == s.body[1]

\* move leaving grow_next set once the body has grown.
move_keeping_grow_next(s) ==
  LET new_head == <<head(s)[1] + s.direction[1], head(s)[2] + s.direction[2]>>
      pushed == <<new_head>> \o s.body
  IN  IF ~s.grow_next
      THEN [s EXCEPT !.body = SubSeq(pushed, 1, Len(pushed) - 1)]
      ELSE [s EXCEPT !.body = pushed]

\* move with the row and column steps swapped.
move_swapped(s) ==
  LET new_head == <<head(s)[1] + s.direction[2], head(s)[2] + s.direction[1]>>
      pushed == <<new_head>> \o s.body
  IN  IF ~s.grow_next
      THEN [s EXCEPT !.body = SubSeq(pushed, 1, Len(pushed) - 1)]
      ELSE [s EXCEPT !.body = pushed, !.grow_next = FALSE]

move(s) ==
  LET new_head == <<head(s)[1] + s.direction[1], head(s)[2] + s.direction[2]>>
      pushed == <<new_head>> \o s.body
  IN  IF ~s.grow_next
      THEN [s EXCEPT !.body = SubSeq(pushed, 1, Len(pushed) - 1)]
      ELSE [s EXCEPT !.body = pushed, !.grow_next = FALSE]

\* grow applied at once: the tail cell is doubled.
grow_at_once(s) ==
  [s EXCEPT !.body = @ \o <<@[Len(@)]>>, !.body_length = @ + 1]

grow(s) == [s EXCEPT !.grow_next = TRUE, !.body_length = @ + 1]

\* change_direction without the test for a 180-degree turn.
change_direction_unguarded(s, new_dir) == [s EXCEPT !.direction = new_dir]

change_direction(s, new_dir) ==
  IF s.direction # <<-new_dir[1], -new_dir[2]>>
  THEN [s EXCEPT !.direction = new_dir]
  ELSE s

\* check_wall_collision looking at the row only.
check_wall_collision_rows_only(s) ==
  \/ head(s)[1] < 0
  \/ head(s)[1] >= HEIGHT

check_collision_with_self(s) ==
  \E i \in 2..Len(s.body) : s.body[i] = head(s)

\* check_wall_collision testing the top and the left wall only.
check_wall_collision_top_left(s) ==
  \/ head(s)[1] < 0
  \/ head(s)[2] < 0

\* check_wall_collision with > for >=.
check_wall_collision_off_by_one(s) ==
  \/ head(s)[1] < 0
  \/ head(s)[1] > HEIGHT
  \/ head(s)[2] < 0
  \/ head(s)[2] > WIDTH

check_wall_collision(s) ==
  \/ head(s)[1] < 0
  \/ head(s)[1] >= HEIGHT
  \/ head(s)[2] < 0
  \/ head(s)[2] >= WIDTH

\* ------------------------------------------------------------- statistics
Range(seq) == {seq[i] : i \in 1..Len(seq)}

\* The record load_stats makes up: that of a player who has completed nothing.
\* A missing file is None.
zeroed_stats ==
  [words_completed |-> 0,
   total_score |-> 0,
   words_by_difficulty |-> [d \in Difficulties |-> 0],
   completed_words |-> <<>>]

\* What the statistics file can hold besides a record of the four keys: text
\* that is not JSON, a file open() is denied, and a JSON object without the
\* keys words_by_difficulty and completed_words.
NotJson == [not_json |-> TRUE]

Unreadable == [permission_denied |-> TRUE]

LackingFields == [words_completed |-> 0, total_score |-> 0]

StatsKeys ==
  {"words_completed", "total_score", "words_by_difficulty", "completed_words"}

\* load_stats raises: its except clause names FileNotFoundError and
\* JSONDecodeError, so the PermissionError of open() leaves it.
load_stats_raises(file) == file = Unreadable

\* load_stats catching FileNotFoundError only.
load_stats_missing_only(file) == IF file = None THEN zeroed_stats ELSE file

\* What load_stats returns when it returns.
load_stats(file) ==
  IF file = None \/ file = NotJson THEN zeroed_stats ELSE file

\* update_stats raises: load_stats does, or a key is missing from the record
\* it returned (KeyError), or open() for writing is denied in save_stats.
update_stats_raises(file, writable) ==
  \/ load_stats_raises(file)
  \/ ~(StatsKeys \subseteq DOMAIN load_stats(file))
  \/ ~writable

\* update_stats appending the word whether it is in the list or not.
update_stats_appending(file, g) ==
  LET stats == load_stats(file)
  IN  [stats EXCEPT
         !.words_completed = @ + 1,
         !.total_score = @ + g.score,
         !.words_by_difficulty[g.difficulty] = @ + 1,
         !.completed_words = Append(@, g.target_word)]

\* update_stats of a session g (Game and SnakeGame have the same method):
\* the content save_stats leaves in the file when nothing is raised.
update_stats(file, g) ==
  LET stats == load_stats(file)
  IN  [stats EXCEPT
         !.words_completed = @ + 1,
         !.total_score = @ + g.score,
         !.words_by_difficulty[g.difficulty] = @ + 1,
         !.completed_words = IF g.target_word \in Range(@) THEN @
                             ELSE Append(@, g.target_word)]

\* ------------------------------------------------------------------- Game

\* get_word_for_difficulty for the menu choice ("1": random.choice has drawn
\* random_word, "2": the player types the lines): whether it has returned,
\* and the word; it goes on asking as long as every line typed is empty once
\* stripped.
RECURSIVE first_word(_)
first_word(lines) ==
  IF lines = <<>> THEN [returned |-> FALSE, word |-> <<>>]
  ELSE IF Len(lower(strip(Head(lines)))) > 0
       THEN [returned |-> TRUE, word |-> lower(strip(Head(lines)))]
       ELSE first_word(Tail(lines))

\* get_word_for_difficulty taking whatever is typed.
get_word_for_difficulty_unchecked(choice, random_word, lines) ==
  IF choice = "1" THEN [returned |-> TRUE, word |-> random_word]
  ELSE IF lines = <<>> THEN [returned |-> FALSE, word |-> <<>>]
       ELSE [returned |-> TRUE, word |-> lower(strip(Head(lines)))]

get_word_for_difficulty(choice, random_word, lines) ==
  IF choice = "1" THEN [returned |-> TRUE, word |-> random_word]
  ELSE first_word(lines)

\* The cells free of the body behind the head.
empty_positions_behind_head(body) ==
  {<<r, c>> : r \in 0..(HEIGHT - 1), c \in 0..(WIDTH - 1)}
    \ Range(Tail(body))

empty_positions(body) ==
  {<<r, c>> : r \in 0..(HEIGHT - 1), c \in 0..(WIDTH - 1)} \ Range(body)

\* generate_food: random.choice over the empty positions, None if there is none.
FoodChoices(body) ==
  IF empty_positions(body) # {} THEN empty_positions(body) ELSE {None}

generate_food(g, choice) == [g EXCEPT !.food = choice]

\* Game.__init__ up to the call of generate_food.
NewGame(target_word, difficulty, started) ==
  [snake |-> Snake(<<HEIGHT \div 2, WIDTH \div 2>>),
   food |-> None,
   score |-> 0,
   game_over |-> FALSE,
   target_word |-> target_word,
   difficulty |-> difficulty,
   start_time |-> started,
   last_letter_time |-> started,
   letters_collected |-> 0,
   show_hint |-> FALSE]

handle_word_completion(g, total_until) ==
  [g EXCEPT !.score = @ + time_bonus(100, total_until - g.start_time)
                        + Len(g.target_word) * 20]

\* The body of "if self.snake.head() == self.food" in Game.update.
\* in.current_time and in.completion_time are the two readings of time.time(),
\* in.food the choice made by generate_food.
pickup_before_food(g, in) ==
  LET grown == [g EXCEPT !.snake = grow(@)]
      scored == [grown EXCEPT
                   !.score = @ + 10
                     + time_bonus(20, in.current_time - g.last_letter_time)
                       * difficulty_multiplier(g.difficulty),
                   !.letters_collected = @ + 1,
                   !.last_letter_time = in.current_time]
  IN  IF scored.letters_collected >= Len(scored.target_word)
      THEN handle_word_completion(scored, in.completion_time)
      ELSE scored

pickup(g, in) == generate_food(pickup_before_food(g, in), in.food)

\* update without the early return of a finished game.
update_no_return(g, in) ==
  LET moved == [g EXCEPT !.snake = move(@)]
      checked == IF \/ check_wall_collision(moved.snake)
                    \/ check_collision_with_self(moved.snake)
                 THEN [moved EXCEPT !.game_over = TRUE]
                 ELSE moved
  IN  IF head(checked.snake) = checked.food
      THEN pickup(checked, in)
      ELSE checked

update(g, in) ==
  IF g.game_over THEN g
  ELSE LET moved == [g EXCEPT !.snake = move(@)]
           checked == IF \/ check_wall_collision(moved.snake)
                         \/ check_collision_with_self(moved.snake)
                      THEN [moved EXCEPT !.game_over = TRUE]
                      ELSE moved
       IN  IF head(checked.snake) = checked.food
           THEN pickup(checked, in)
           ELSE checked

\* The file as one call of update leaves it: handle_word_completion calls
\* update_stats once the score holds the completion bonus, and generate_food
\* changes nothing update_stats reads.
update_file(file, g, in) ==
  IF g.game_over \/ head(move(g.snake)) # g.food THEN file
  ELSE IF update(g, in).letters_collected >= Len(g.target_word)
       THEN update_stats(file, update(g, in))
       ELSE file

\* The move and the collision tests of update.
moved_and_checked(g) ==
  LET moved == [g EXCEPT !.snake = move(@)]
  IN  IF \/ check_wall_collision(moved.snake)
         \/ check_collision_with_self(moved.snake)
      THEN [moved EXCEPT !.game_over = TRUE]
      ELSE moved

\* One call of update with a statistics file of any content, writable or not:
\* the Game, the file, and whether an exception has left update.  When
\* update_stats raises, the exception leaves handle_word_completion and
\* update before generate_food is called.
update_outcome(file, writable, g, in) ==
  LET checked == moved_and_checked(g)
  IN  IF /\ ~g.game_over
         /\ head(checked.snake) = checked.food
         /\ checked.letters_collected + 1 >= Len(checked.target_word)
         /\ update_stats_raises(file, writable)
      THEN [session |-> pickup_before_food(checked, in),
            file |-> file,
            raised |-> TRUE]
      ELSE [session |-> update(g, in),
            file |-> update_file(file, g, in),
            raised |-> FALSE]

\* str.upper on the letters of the words.
upper(letter) ==
  CASE letter = "c" -> "C" [] letter = "a" -> "A" [] letter = "t" -> "T"
    [] letter = "s" -> "S" [] letter = "n" -> "N" [] letter = "k" -> "K"
    [] letter = "e" -> "E"

FOOD_CHAR == "F"

\* Game.draw, the letter printed on the food cell, taking the letter after
\* the next one.
food_letter_after_next(g) ==
  LET body_letters == g.target_word
      next_index == IF g.letters_collected + 1 < Len(g.target_word) - 1
                    THEN g.letters_collected + 1
                    ELSE Len(g.target_word) - 1
  IN  IF next_index < Len(body_letters)
      THEN upper(body_letters[next_index + 1])
      ELSE FOOD_CHAR

\* Game.draw: the letter printed on the food cell (indices count from 0 in
\* the code, from 1 here).
food_letter(g) ==
  LET body_letters == g.target_word
      next_index == IF g.letters_collected < Len(g.target_word) - 1
                    THEN g.letters_collected
                    ELSE Len(g.target_word) - 1
  IN  IF next_index < Len(body_letters)
      THEN upper(body_letters[next_index + 1])
      ELSE FOOD_CHAR

\* The progress without the clamp to the length of the word.
progress_unclamped(g) == g.snake.body_length - 1

\* Game.draw: min(self.snake.body_length - 1, len(self.target_word)).
progress(g) ==
  IF g.snake.body_length - 1 < Len(g.target_word)
  THEN g.snake.body_length - 1
  ELSE Len(g.target_word)

SNAKE_CHAR == "O"

SNAKE_HEAD_CHAR == "X"

\* list(self.snake.body).index(pos): the first index of the cell, from 0.
body_index(body, pos) ==
  (CHOOSE i \in 1..Len(body) :
     body[i] = pos /\ \A j \in 1..(i - 1) : body[j] # pos) - 1

\* The cell of a body segment taking the letter at the index of the segment.
body_cell_letter_at_index(g, pos) ==
  LET body_letters == g.target_word
      index == body_index(g.snake.body, pos)
  IN  IF pos = head(g.snake)
      THEN [color |-> "GREEN", char |-> SNAKE_HEAD_CHAR]
      ELSE IF index > 0 /\ index < Len(body_letters)
           THEN [color |-> "YELLOW", char |-> upper(body_letters[index + 1])]
           ELSE [color |-> "BLUE", char |-> SNAKE_CHAR]

\* Game.draw: what is printed for a grid cell the snake lies on (indices
\* count from 0 in the code: body_letters[letter_index] is the letter at
\* letter_index + 1 here).
body_cell(g, pos) ==
  LET body_letters == g.target_word
      index == body_index(g.snake.body, pos)
      letter_index == index - 1
  IN  IF pos = head(g.snake)
      THEN [color |-> "GREEN", char |-> SNAKE_HEAD_CHAR]
      ELSE IF index > 0 /\ index <= Len(body_letters)
           THEN [color |-> "YELLOW",
                 char |-> upper(body_letters[letter_index + 1])]
           ELSE [color |-> "BLUE", char |-> SNAKE_CHAR]

\* key_listener: the branch of the key 'h'.
key_listener_h(g) == [g EXCEPT !.show_hint = TRUE]

\* key_listener: the Game after one pass of the loop body, by the key found
\* pressed: a direction key, 'h', or none of the keys it tests ('p' is not
\* among them).
key_pass_outcomes(g) ==
  {[g EXCEPT !.snake = change_direction(@, d)] : d \in Directions}
    \cup {[g EXCEPT !.show_hint = TRUE], g}

\* What one call of update can be given: the readings of time.time() and the
\* choice of random.choice in generate_food (used only on a pickup).
UpdateInputs(g) ==
  [current_time : {now}, completion_time : {now},
   food : IF g.game_over \/ head(move(g.snake)) # g.food
          THEN {None}
          ELSE FoodChoices(move(g.snake).body)]

\* -------------------------------------------------------------- SnakeGame
\* SnakeGame.__init__: the state behind the main menu.
NewSnakeGame ==
  [is_running |-> FALSE,
   game_over |-> FALSE,
   paused |-> FALSE,
   difficulty |-> "medium",
   target_word |-> <<>>,
   show_hint |-> FALSE,
   snake |-> None,
   food_pos |-> None,
   direction |-> RIGHT,
   next_direction |-> RIGHT,
   score |-> 0,
   letters_collected |-> 0,
   last_letter_time |-> 0]

\* set_direction testing the turn against next_direction.
set_direction_against_next(g, new_dir) ==
  IF ~g.is_running \/ g.paused \/ g.game_over THEN g
  ELSE IF g.next_direction[1] # -new_dir[1] \/ g.next_direction[2] # -new_dir[2]
       THEN [g EXCEPT !.next_direction = new_dir]
       ELSE g

\* set_direction without the test of is_running, paused and game_over.
set_direction_at_any_time(g, new_dir) ==
  IF g.direction[1] # -new_dir[1] \/ g.direction[2] # -new_dir[2]
  THEN [g EXCEPT !.next_direction = new_dir]
  ELSE g

set_direction(g, new_dir) ==
  IF ~g.is_running \/ g.paused \/ g.game_over THEN g
  ELSE IF g.direction[1] # -new_dir[1] \/ g.direction[2] # -new_dir[2]
       THEN [g EXCEPT !.next_direction = new_dir]
       ELSE g

toggle_hint(g) ==
  IF g.is_running /\ ~g.game_over THEN [g EXCEPT !.show_hint = ~@] ELSE g

toggle_pause(g) ==
  IF g.is_running /\ ~g.game_over THEN [g EXCEPT !.paused = ~@] ELSE g

\* generate_food taking every cell of the grid for empty.
gui_empty_positions_of_grid(snake) ==
  {<<r, c>> : r \in 0..(GRID_HEIGHT - 1), c \in 0..(GRID_WIDTH - 1)}

gui_empty_positions(snake) ==
  {<<r, c>> : r \in 0..(GRID_HEIGHT - 1), c \in 0..(GRID_WIDTH - 1)}
    \ Range(snake)

GuiFoodChoices(snake) ==
  IF gui_empty_positions(snake) # {} THEN gui_empty_positions(snake)
  ELSE {None}

handle_game_won(g) == [g EXCEPT !.game_over = TRUE]

handle_game_over(g) == [g EXCEPT !.game_over = TRUE]

gui_generate_food(g, choice) ==
  IF ~g.is_running THEN g
  ELSE IF gui_empty_positions(g.snake) # {}
       THEN [g EXCEPT !.food_pos = choice]
       ELSE handle_game_won([g EXCEPT !.food_pos = None])

\* SnakeGame.handle_word_completion: the elapsed time is taken from
\* last_letter_time, which handle_letter_collection has just set.
gui_handle_word_completion(g, total_until) ==
  [g EXCEPT !.score = @ + time_bonus(100, total_until - g.last_letter_time)
                        + Len(g.target_word) * 20]

handle_letter_collection(g, in) ==
  LET scored == [g EXCEPT
                   !.score = @ + 10
                     + time_bonus(20, in.current_time - g.last_letter_time)
                       * difficulty_multiplier(g.difficulty),
                   !.letters_collected = @ + 1,
                   !.last_letter_time = in.current_time]
  IN  IF scored.letters_collected >= Len(scored.target_word)
      THEN gui_handle_word_completion(scored, in.completion_time)
      ELSE scored

move_snake(g, in) ==
  IF ~g.is_running \/ g.paused \/ g.game_over THEN g
  ELSE LET turned == [g EXCEPT !.direction = g.next_direction]
           new_head == <<g.snake[1][1] + turned.direction[1],
                         g.snake[1][2] + turned.direction[2]>>
       IN  IF \/ new_head[1] < 0
              \/ new_head[1] >= GRID_HEIGHT
              \/ new_head[2] < 0
              \/ new_head[2] >= GRID_WIDTH
              \/ new_head \in Range(g.snake)
           THEN handle_game_over(turned)
           ELSE LET pushed == [turned EXCEPT !.snake = <<new_head>> \o @]
                IN  IF new_head = pushed.food_pos
                    THEN gui_generate_food(
                           handle_letter_collection(pushed, in), in.food)
                    ELSE [pushed EXCEPT
                            !.snake = SubSeq(@, 1, Len(@) - 1)]

game_loop(g, in) ==
  IF ~g.is_running THEN g
  ELSE IF ~g.paused /\ ~g.game_over THEN move_snake(g, in) ELSE g

\* SnakeGame.draw_game: the letter drawn on the food, None where the food is
\* drawn without one.
gui_food_letter(g) ==
  IF g.letters_collected < Len(g.target_word)
  THEN upper(g.target_word[g.letters_collected + 1])
  ELSE None

\* SnakeGame.draw_game: the texts drawn on segment i of the snake, i counting
\* from 0 at the head: the letter, or nothing.
segment_text(g, i) ==
  IF i = 0 THEN {}
  ELSE IF i <= Len(g.target_word) /\ i <= g.letters_collected
       THEN LET letter_idx == i - 1
            IN  IF letter_idx < Len(g.target_word)
                THEN {upper(g.target_word[letter_idx + 1])}
                ELSE {}
       ELSE {}

\* The head move_snake computes, as far as it gets to compute one.
GuiNewHead(g) ==
  <<g.snake[1][1] + g.next_direction[1], g.snake[1][2] + g.next_direction[2]>>

\* The file as one call of move_snake leaves it: on a pickup
\* handle_word_completion calls update_stats, and so does handle_game_won
\* when generate_food finds the grid full.
move_snake_file(file, g, in) ==
  IF \/ ~g.is_running \/ g.paused \/ g.game_over
     \/ GuiNewHead(g) # g.food_pos
  THEN file
  ELSE LET collected == move_snake(g, in)
           completed == IF collected.letters_collected >= Len(g.target_word)
                        THEN update_stats(file, collected)
                        ELSE file
       IN  IF gui_empty_positions(collected.snake) = {}
           THEN update_stats(completed, collected)
           ELSE completed

game_loop_file(file, g, in) ==
  IF ~g.is_running THEN file
  ELSE IF ~g.paused /\ ~g.game_over THEN move_snake_file(file, g, in)
       ELSE file

\* One call of move_snake with a statistics file of any content, writable or
\* not: the SnakeGame, the file, and whether an exception has left move_snake.
\* When the update_stats of handle_word_completion raises, generate_food is
\* not called; when that of handle_game_won raises, show_game_over is not.
move_snake_outcome(file, writable, g, in) ==
  IF \/ ~g.is_running \/ g.paused \/ g.game_over
     \/ GuiNewHead(g) # g.food_pos
  THEN [session |-> move_snake(g, in), file |-> file, raised |-> FALSE]
  ELSE LET pushed == [g EXCEPT !.direction = g.next_direction,
                               !.snake = <<GuiNewHead(g)>> \o @]
           collected == handle_letter_collection(pushed, in)
           completes == collected.letters_collected >= Len(g.target_word)
           completed == IF completes THEN update_stats(file, collected)
                        ELSE file
           full == gui_empty_positions(collected.snake) = {}
       IN  IF completes /\ update_stats_raises(file, writable)
           THEN [session |-> collected, file |-> file, raised |-> TRUE]
           ELSE IF full /\ update_stats_raises(completed, writable)
           THEN [session |-> move_snake(g, in), file |-> completed,
                 raised |-> TRUE]
           ELSE [session |-> move_snake(g, in),
                 file |-> move_snake_file(file, g, in),
                 raised |-> FALSE]

\* One call of game_loop likewise; an exception leaves it before it has
\* scheduled the next call.
game_loop_outcome(file, writable, g, in) ==
  IF g.is_running /\ ~g.paused /\ ~g.game_over
  THEN move_snake_outcome(file, writable, g, in)
  ELSE [session |-> g, file |-> file, raised |-> FALSE]

MoveInputs(g) ==
  [current_time : {now}, completion_time : {now},
   food : IF \/ ~g.is_running \/ g.paused \/ g.game_over
             \/ GuiNewHead(g) # g.food_pos
          THEN {None}
          ELSE GuiFoodChoices(<<GuiNewHead(g)>> \o g.snake)]

\* start_game keeping the score and the letters of the session before.
start_game_setup_keeping_score(g, target_word, difficulty, started) ==
  [g EXCEPT !.difficulty = difficulty,
            !.target_word = target_word,
            !.is_running = TRUE,
            !.game_over = FALSE,
            !.paused = FALSE,
            !.show_hint = FALSE,
            !.snake = <<<<GRID_HEIGHT \div 2, GRID_WIDTH \div 2>>>>,
            !.direction = RIGHT,
            !.next_direction = RIGHT,
            !.food_pos = None,
            !.last_letter_time = started]

\* SnakeGame.start_game up to the call of generate_food; set_difficulty and
\* use_random_word / use_custom_word have stored the difficulty and the word.
start_game_setup(g, target_word, difficulty, started) ==
  [g EXCEPT !.difficulty = difficulty,
            !.target_word = target_word,
            !.score = 0,
            !.letters_collected = 0,
            !.is_running = TRUE,
            !.game_over = FALSE,
            !.paused = FALSE,
            !.show_hint = FALSE,
            !.snake = <<<<GRID_HEIGHT \div 2, GRID_WIDTH \div 2>>>>,
            !.direction = RIGHT,
            !.next_direction = RIGHT,
            !.food_pos = None,
            !.last_letter_time = started]

\* start_game: the setup, the first food, and the first call of game_loop.
start_game(g, target_word, difficulty, started, first_food, in) ==
  game_loop(
    gui_generate_food(start_game_setup(g, target_word, difficulty, started),
                      first_food),
    in)

start_game_file(file, g, target_word, difficulty, started, first_food, in) ==
  game_loop_file(
    file,
    gui_generate_food(start_game_setup(g, target_word, difficulty, started),
                      first_food),
    in)

\* use_custom_word: the entry is stripped and put in lower case; an empty
\* word gets a warning and nothing else.
use_custom_word(g, entry, difficulty, started, first_food, in) ==
  LET word == lower(strip(entry))
  IN  IF word # <<>>
      THEN start_game(g, word, difficulty, started, first_food, in)
      ELSE g

use_custom_word_file(file, g, entry, difficulty, started, first_food, in) ==
  LET word == lower(strip(entry))
  IN  IF word # <<>>
      THEN start_game_file(file, g, word, difficulty, started, first_food, in)
      ELSE file

show_main_menu(g) == [g EXCEPT !.is_running = FALSE]

set_difficulty(g, difficulty) == [g EXCEPT !.difficulty = difficulty]

quit_game(g) ==
  IF g.is_running THEN show_main_menu([g EXCEPT !.is_running = FALSE]) ELSE g

\* ---------------------------------------------------------------- actions
\* A run of snake_game.py: main has built the first Game and started the
\* key listener.  A run of snake_game_gui.py: the main menu is showing.
Init ==
  /\ now = 0
  /\ stats_file = None
  /\ timers = 0
  /\ \/ /\ \E w \in Words, d \in Difficulties :
             \E f \in FoodChoices(<<<<HEIGHT \div 2, WIDTH \div 2>>>>) :
               game = generate_food(NewGame(w, d, 0), f)
        /\ listener = "check"
        /\ gui = None
     \/ /\ game = None
        /\ listener = None
        /\ gui = NewSnakeGame

\* One call of Game.update.
Update ==
  /\ game # None
  /\ \E in \in UpdateInputs(game) :
       /\ game' = update(game, in)
       /\ stats_file' = update_file(stats_file, game, in)
  /\ UNCHANGED <<listener, gui, now, timers>>

\* key_listener: the test of "while not game.game_over".
KeyListenerTest ==
  /\ listener = "check"
  /\ listener' = IF game.game_over THEN "done" ELSE "poll"
  /\ UNCHANGED <<game, gui, now, stats_file, timers>>

\* key_listener: one pass of the loop body with a direction key down.
KeyListenerDirection ==
  /\ listener = "poll"
  /\ \E d \in Directions :
       game' = [game EXCEPT !.snake = change_direction(@, d)]
  /\ listener' = "check"
  /\ UNCHANGED <<gui, now, stats_file, timers>>

\* key_listener: one pass of the loop body with 'h' down.
KeyListenerHint ==
  /\ listener = "poll"
  /\ game' = key_listener_h(game)
  /\ listener' = "check"
  /\ UNCHANGED <<gui, now, stats_file, timers>>

\* key_listener: one pass of the loop body with no key down.
KeyListenerIdle ==
  /\ listener = "poll"
  /\ listener' = "check"
  /\ UNCHANGED <<game, gui, now, stats_file, timers>>

\* main: 'r' after game over builds a new Game and a new listener thread.
Restart ==
  /\ game # None
  /\ game.game_over
  /\ load_stats(stats_file).words_completed < MaxCompleted
  /\ \E w \in Words, d \in Difficulties :
       \E f \in FoodChoices(<<<<HEIGHT \div 2, WIDTH \div 2>>>>) :
         game' = generate_food(NewGame(w, d, now), f)
  /\ listener' = "check"
  /\ UNCHANGED <<gui, now, stats_file, timers>>

\* The word selection screen reached from the main menu: use_random_word, or
\* use_custom_word with a non-empty entry.
StartGame ==
  /\ gui # None
  /\ ~gui.is_running
  /\ timers < MaxTimers
  /\ load_stats(stats_file).words_completed < MaxCompleted
  /\ \E w \in Words, d \in Difficulties :
       \E f \in GuiFoodChoices(<<<<GRID_HEIGHT \div 2, GRID_WIDTH \div 2>>>>) :
         \E in \in MoveInputs(
                     gui_generate_food(start_game_setup(gui, w, d, now), f)) :
           /\ gui' = start_game(gui, w, d, now, f, in)
           /\ stats_file' = start_game_file(stats_file, gui, w, d, now, f, in)
  /\ timers' = timers + 1
  /\ UNCHANGED <<game, listener, now>>

\* A timer callback scheduled by game_loop: Tk drops it from its list and
\* game_loop schedules the next one unless is_running is off.
GameLoop ==
  /\ gui # None
  /\ timers > 0
  /\ \E in \in MoveInputs(gui) :
       /\ gui' = game_loop(gui, in)
       /\ stats_file' = game_loop_file(stats_file, gui, in)
  /\ timers' = IF gui.is_running THEN timers ELSE timers - 1
  /\ UNCHANGED <<game, listener, now>>

\* An arrow key; the keys are bound by start_game.
SetDirection ==
  /\ gui # None
  /\ gui.snake # None
  /\ \E d \in Directions : gui' = set_direction(gui, d)
  /\ UNCHANGED <<game, listener, now, stats_file, timers>>

\* The 'p' key.
TogglePause ==
  /\ gui # None
  /\ gui.snake # None
  /\ gui' = toggle_pause(gui)
  /\ UNCHANGED <<game, listener, now, stats_file, timers>>

\* "Play Again" on the game over screen, then the word selection screen.
PlayAgain ==
  /\ gui # None
  /\ gui.is_running
  /\ gui.game_over
  /\ timers < MaxTimers
  /\ load_stats(stats_file).words_completed < MaxCompleted
  /\ \E w \in Words, d \in Difficulties :
       \E f \in GuiFoodChoices(<<<<GRID_HEIGHT \div 2, GRID_WIDTH \div 2>>>>) :
         \E in \in MoveInputs(
                     gui_generate_food(start_game_setup(gui, w, d, now), f)) :
           /\ gui' = start_game(gui, w, d, now, f, in)
           /\ stats_file' = start_game_file(stats_file, gui, w, d, now, f, in)
  /\ timers' = timers + 1
  /\ UNCHANGED <<game, listener, now>>

\* Time passes while a session is on; the clock counts from its creation.
Elapse ==
  /\ game # None \/ (gui # None /\ gui.is_running)
  /\ \E t \in TimePoints : t > now /\ now' = t
  /\ UNCHANGED <<game, listener, gui, stats_file, timers>>

Next ==
  \/ Update
  \/ KeyListenerTest
  \/ KeyListenerDirection
  \/ KeyListenerHint
  \/ KeyListenerIdle
  \/ StartGame
  \/ GameLoop
  \/ SetDirection
  \/ TogglePause

\* One session of either program, as long as the clock stands still.
Spec == Init /\ [][Next]_vars

\* Session after session.
NextRestart == Next \/ Restart \/ PlayAgain

SpecRestart == Init /\ [][NextRestart]_vars

\* The session has had at most the pickups of its word: it is followed up
\* to one pickup past the completion of the word.
WordOpen ==
  \/ game # None /\ game.letters_collected <= Len(game.target_word)
  \/ gui # None /\ gui.letters_collected <= Len(gui.target_word)

TimedUpdate == WordOpen /\ Update

TimedGameLoop == WordOpen /\ GameLoop

\* The clock is read by a pickup and by nothing else: time passes right
\* before the tick that picks up.
ElapseToPickup ==
  /\ \/ game # None /\ ~game.game_over
          /\ head(move(game.snake)) = game.food
     \/ gui # None /\ gui.is_running /\ ~gui.paused /\ ~gui.game_over
          /\ GuiNewHead(gui) = gui.food_pos
  /\ WordOpen
  /\ Elapse

\* One session with the clock running: the ticks and the direction events.
NextClock ==
  \/ TimedUpdate
  \/ KeyListenerTest
  \/ KeyListenerDirection
  \/ StartGame
  \/ TimedGameLoop
  \/ SetDirection
  \/ ElapseToPickup

SpecClock == Init /\ [][NextClock]_vars

\* A run that finds the statistics file in any condition.
InitStats ==
  /\ now = 0
  /\ stats_file \in {None, NotJson, Unreadable, LackingFields}
  /\ timers = 0
  /\ \/ /\ \E w \in Words, d \in Difficulties :
             \E f \in FoodChoices(<<<<HEIGHT \div 2, WIDTH \div 2>>>>) :
               game = generate_food(NewGame(w, d, 0), f)
        /\ listener = "check"
        /\ gui = None
     \/ /\ game = None
        /\ listener = None
        /\ gui = NewSnakeGame

\* One call of Game.update, the file writable or not.  main catches
\* KeyboardInterrupt only: an exception that leaves update ends the process,
\* the listener thread (a daemon) with it.
StatsUpdate ==
  /\ game # None
  /\ WordOpen
  /\ \E in \in UpdateInputs(game), writable \in BOOLEAN :
       LET out == update_outcome(stats_file, writable, game, in)
       IN  /\ game' = IF out.raised THEN None ELSE out.session
           /\ listener' = IF out.raised THEN None ELSE listener
           /\ stats_file' = out.file
  /\ UNCHANGED <<gui, now, timers>>

\* start_game run by the button of the word selection screen.  Tk reports an
\* exception that leaves the callback and goes on with its main loop.
StatsStartGame ==
  /\ gui # None
  /\ ~gui.is_running
  /\ timers = 0
  /\ \E w \in Words, d \in Difficulties, writable \in BOOLEAN :
       \E f \in GuiFoodChoices(<<<<GRID_HEIGHT \div 2, GRID_WIDTH \div 2>>>>) :
         LET created == gui_generate_food(start_game_setup(gui, w, d, now), f)
         IN  \E in \in MoveInputs(created) :
               LET out == game_loop_outcome(stats_file, writable, created, in)
               IN  /\ gui' = out.session
                   /\ stats_file' = out.file
                   /\ timers' = IF out.raised THEN timers ELSE timers + 1
  /\ UNCHANGED <<game, listener, now>>

\* A timer callback, the file writable or not.
StatsGameLoop ==
  /\ gui # None
  /\ timers > 0
  /\ WordOpen
  /\ \E in \in MoveInputs(gui), writable \in BOOLEAN :
       LET out == game_loop_outcome(stats_file, writable, gui, in)
       IN  /\ gui' = out.session
           /\ stats_file' = out.file
           /\ timers' = IF out.raised \/ ~gui.is_running THEN timers - 1
                         ELSE timers
  /\ UNCHANGED <<game, listener, now>>

NextStats ==
  \/ StatsUpdate
  \/ KeyListenerTest
  \/ KeyListenerDirection
  \/ StatsStartGame
  \/ StatsGameLoop
  \/ SetDirection

SpecStats == InitStats /\ [][NextStats]_vars

\* What get_word_for_difficulty is given: choice "1" and the word drawn by
\* random.choice, or choice "2" (no word is drawn) and the lines typed at the
\* prompt: one entry, or a blank line and then a word.
WordSelections ==
  [choice : {"1"}, random_word : Words, lines : {<<>>}]
    \cup [choice : {"2"}, random_word : {<<>>},
          lines : {<<e>> : e \in Entries}
                    \cup {<<<<Blank>>, w>> : w \in Words}]

\* A run from the word selection on: main has asked for the difficulty and
\* the word and built the first Game, or is still asking for a word (no Game
\* yet); the GUI shows its main menu.
InitWords ==
  /\ now = 0
  /\ stats_file = None
  /\ timers = 0
  /\ \/ /\ \E d \in Difficulties, sel \in WordSelections :
               LET got == get_word_for_difficulty(
                            sel.choice, sel.random_word, sel.lines)
               IN  IF ~got.returned
                   THEN game = None /\ listener = None
                   ELSE /\ \E f \in FoodChoices(
                                      <<<<HEIGHT \div 2, WIDTH \div 2>>>>) :
                             game = generate_food(NewGame(got.word, d, 0), f)
                        /\ listener = "check"
        /\ gui = None
     \/ /\ game = None
        /\ listener = None
        /\ gui = NewSnakeGame

\* main: 'r' after game over asks for the difficulty and the word again and
\* builds a new Game once get_word_for_difficulty has returned.
RestartTyped ==
  /\ game # None
  /\ game.game_over
  /\ load_stats(stats_file).words_completed < MaxCompleted
  /\ \E d \in Difficulties, sel \in WordSelections :
         LET got == get_word_for_difficulty(
                      sel.choice, sel.random_word, sel.lines)
         IN  /\ got.returned
             /\ \E f \in FoodChoices(<<<<HEIGHT \div 2, WIDTH \div 2>>>>) :
                  game' = generate_food(NewGame(got.word, d, now), f)
  /\ listener' = "check"
  /\ UNCHANGED <<gui, now, stats_file, timers>>

\* A button of the difficulty selection screen, reached from the main menu
\* or by "Play Again".
SetDifficulty ==
  /\ gui # None
  /\ ~gui.is_running \/ gui.game_over
  /\ \E d \in Difficulties : gui' = set_difficulty(gui, d)
  /\ UNCHANGED <<game, listener, now, stats_file, timers>>

\* The "Submit" button of the word selection screen, which follows
\* the difficulty selection.
UseCustomWord ==
  /\ gui # None
  /\ ~gui.is_running \/ gui.game_over
  /\ timers < MaxTimers
  /\ load_stats(stats_file).words_completed < MaxCompleted
  /\ \E entry \in Entries :
       \E f \in GuiFoodChoices(<<<<GRID_HEIGHT \div 2, GRID_WIDTH \div 2>>>>) :
         \E in \in MoveInputs(
                     gui_generate_food(
                       start_game_setup(gui, lower(strip(entry)),
                                        gui.difficulty, now), f)) :
           /\ gui' = use_custom_word(gui, entry, gui.difficulty, now, f, in)
           /\ stats_file' =
                use_custom_word_file(stats_file, gui, entry, gui.difficulty,
                                     now, f, in)
           /\ timers' = IF lower(strip(entry)) # <<>> THEN timers + 1
                         ELSE timers
  /\ UNCHANGED <<game, listener, now>>

\* "Main Menu" on the game over screen.
MainMenu ==
  /\ gui # None
  /\ gui.is_running
  /\ gui.game_over
  /\ gui' = show_main_menu(gui)
  /\ UNCHANGED <<game, listener, now, stats_file, timers>>

\* The 'q' key; the keys are bound by start_game and stay bound.
QuitGame ==
  /\ gui # None
  /\ gui.snake # None
  /\ gui' = quit_game(gui)
  /\ UNCHANGED <<game, listener, now, stats_file, timers>>

\* GUI session after GUI session, with the ways out of a session and the
\* timer callbacks; the player leaves the snake to run straight on.
NextMenu ==
  \/ StartGame
  \/ PlayAgain
  \/ GameLoop
  \/ MainMenu
  \/ QuitGame

SpecMenu == Init /\ [][NextMenu]_vars

\* Session after session, each with the word chosen at the prompt or on the
\* word selection screen; the player leaves the snake to run straight on.
NextWords ==
  \/ TimedUpdate
  \/ RestartTyped
  \/ StartGame
  \/ SetDifficulty
  \/ UseCustomWord
  \/ TimedGameLoop

SpecWords == InitWords /\ [][NextWords]_vars

\* Game.__init__ with the grid of the source: Snake() starts in the middle
\* of HEIGHT x WIDTH as the module has them.
InitSnake ==
  /\ now = 0
  /\ stats_file = None
  /\ timers = 0
  /\ \E w \in Words, d \in Difficulties :
       game = [NewGame(w, d, 0) EXCEPT
                 !.snake = Snake(<<SOURCE_HEIGHT \div 2, SOURCE_WIDTH \div 2>>)]
  /\ listener = None
  /\ gui = None

\* The methods of the Snake called one by one.
SnakeMove ==
  /\ game # None
  /\ LET moved == move(game.snake)
     IN  /\ head(moved)[1] - SOURCE_HEIGHT \div 2 \in -MaxMoves..MaxMoves
         /\ head(moved)[2] - SOURCE_WIDTH \div 2 \in -MaxMoves..MaxMoves
         /\ game' = [game EXCEPT !.snake = moved]
  /\ UNCHANGED <<listener, gui, now, stats_file, timers>>

SnakeChangeDirection ==
  /\ game # None
  /\ \E d \in Directions :
       game' = [game EXCEPT !.snake = change_direction(@, d)]
  /\ UNCHANGED <<listener, gui, now, stats_file, timers>>

SnakeGrow ==
  /\ game # None
  /\ game.snake.body_length <= MaxWordLen
  /\ game' = [game EXCEPT !.snake = grow(@)]
  /\ UNCHANGED <<listener, gui, now, stats_file, timers>>

NextSnake == SnakeMove \/ SnakeChangeDirection \/ SnakeGrow

SpecSnake == InitSnake /\ [][NextSnake]_vars

\* update_stats called again and again, on a file that does not exist at
\* first, by sessions of any word, difficulty and score.
InitRecord ==
  /\ now = 0
  /\ stats_file = None
  /\ timers = 0
  /\ game = None
  /\ listener = None
  /\ gui = None

GameUpdateStats ==
  /\ load_stats(stats_file).words_completed < MaxCompleted + 1
  /\ \E w \in Words, d \in Difficulties, points \in 0..MaxScore :
       game' = [NewGame(w, d, now) EXCEPT !.score = points]
  /\ stats_file' = update_stats(stats_file, game')
  /\ gui' = None
  /\ UNCHANGED <<listener, now, timers>>

SnakeGameUpdateStats ==
  /\ load_stats(stats_file).words_completed < MaxCompleted + 1
  /\ \E w \in Words, d \in Difficulties, points \in 0..MaxScore :
       gui' = [NewSnakeGame EXCEPT
                 !.target_word = w, !.difficulty = d, !.score = points]
  /\ stats_file' = update_stats(stats_file, gui')
  /\ game' = None
  /\ UNCHANGED <<listener, now, timers>>

NextRecord == GameUpdateStats \/ SnakeGameUpdateStats

SpecRecord == InitRecord /\ [][NextRecord]_vars

\* Sessions played without a turn, one after the other: the terminal's
\* restart, and the GUI's menus.
NextAgain == Update \/ Restart \/ NextMenu

SpecAgain == Init /\ [][NextAgain]_vars

\* ----------------------------------------------------------------- claims
\* Every reading of the clock and every choice of food a pickup can be given,
\* the clock standing still or not (the two readings of one pickup are taken
\* within the same instant); a tick without pickup reads neither.
AnyInputs(picks_up, foods) ==
  IF picks_up
  THEN {in \in [current_time : TimePoints, completion_time : TimePoints,
                food : foods] : in.completion_time = in.current_time}
  ELSE {[current_time |-> now, completion_time |-> now, food |-> None]}

TerminalInputs ==
  AnyInputs(head(move(game.snake)) = game.food,
            FoodChoices(move(game.snake).body))

GuiInputs ==
  AnyInputs(GuiNewHead(gui) = gui.food_pos,
            GuiFoodChoices(<<GuiNewHead(gui)>> \o gui.snake))

Terminal == game # None

\* The GUI once start_game has run.
Gui == gui # None /\ gui.snake # None

\* A running GUI session whose timer callback moves the snake.
GuiTicking == Gui /\ gui.is_running /\ ~gui.paused /\ ~gui.game_over

InGrid(pos, height, width) ==
  /\ pos[1] >= 0
  /\ pos[1] < height
  /\ pos[2] >= 0
  /\ pos[2] < width

\* The head is off the grid or on a body cell behind it.
Collided(body, height, width) ==
  \/ ~InGrid(body[1], height, width)
  \/ \E i \in 2..Len(body) : body[i] = body[1]

Plus(pos, dir) == <<pos[1] + dir[1], pos[2] + dir[2]>>

\* C1: once game_over is set (by a collision, or in the GUI by a full grid),
\* a further tick leaves the whole session, score, snake, food and
\* letters_collected included, as it is.
C1_TickAfterGameOverIsNoOp ==
  /\ Terminal /\ game.game_over =>
       \A in \in TerminalInputs : update(game, in) = game
  /\ Gui /\ gui.game_over =>
       \A in \in GuiInputs :
         /\ move_snake(gui, in) = gui
         /\ game_loop(gui, in) = gui

\* A terminal session that ended after a pickup.
C1_Witness ==
  Terminal /\ game.game_over /\ game.score > 0 /\ Len(game.snake.body) > 1

\* C2: letters_collected never exceeds the length of the target word.
C2_LettersWithinWord ==
  /\ Terminal => game.letters_collected <= Len(game.target_word)
  /\ Gui => gui.letters_collected <= Len(gui.target_word)

AllCells(height, width) ==
  {<<r, c>> : r \in 0..(height - 1), c \in 0..(width - 1)}

\* C3: once a pickup has left no cell free, food is absent and the session
\* is in a final state of its own: it is not the state of a collision, and no
\* later tick moves the snake or changes the score.
C3_FullGridIsFinal ==
  /\ Terminal /\ AllCells(HEIGHT, WIDTH) \subseteq Range(game.snake.body) =>
       /\ game.food = None
       /\ ~Collided(game.snake.body, HEIGHT, WIDTH) =>
            \A in \in TerminalInputs :
              /\ update(game, in).snake.body = game.snake.body
              /\ update(game, in).score = game.score
  /\ Gui /\ AllCells(GRID_HEIGHT, GRID_WIDTH) \subseteq Range(gui.snake) =>
       /\ gui.food_pos = None
       /\ \A in \in GuiInputs :
            /\ move_snake(gui, in).snake = gui.snake
            /\ move_snake(gui, in).score = gui.score

\* The fields a collision is claimed to leave alone (C4), pending growth among
\* them.
TerminalFrame(g) ==
  <<g.score, g.letters_collected, g.food, g.last_letter_time>>

GuiFrame(g) ==
  <<g.score, g.letters_collected, g.food_pos, g.last_letter_time>>

\* The tick from this state ends in a wall or self collision.
TerminalTickCollides ==
  Terminal /\ ~game.game_over
    /\ Collided(move(game.snake).body, HEIGHT, WIDTH)

GuiTickCollides ==
  GuiTicking
    /\ \/ ~InGrid(GuiNewHead(gui), GRID_HEIGHT, GRID_WIDTH)
       \/ GuiNewHead(gui) \in Range(gui.snake)

\* C4 as claimed: a tick that ends in a collision sets game_over and leaves
\* score, letters_collected, food, the last-pickup time and the pending growth
\* as they were.
C4_CollisionKeepsPendingGrowth ==
  /\ TerminalTickCollides =>
       \A in \in TerminalInputs :
         /\ update(game, in).game_over
         /\ TerminalFrame(update(game, in)) = TerminalFrame(game)
         /\ update(game, in).snake.grow_next = game.snake.grow_next
  /\ GuiTickCollides =>
       \A in \in GuiInputs :
         /\ move_snake(gui, in).game_over
         /\ GuiFrame(move_snake(gui, in)) = GuiFrame(gui)

\* C4 as amended: a tick that ends in a collision sets game_over and leaves
\* score, letters_collected, food and the last-pickup time as they were; in the
\* terminal game the move of that tick has consumed the pending growth.
C4_CollisionHasNoPickup ==
  /\ TerminalTickCollides =>
       \A in \in TerminalInputs :
         /\ update(game, in).game_over
         /\ TerminalFrame(update(game, in)) = TerminalFrame(game)
         /\ ~update(game, in).snake.grow_next
  /\ GuiTickCollides =>
       \A in \in GuiInputs :
         /\ move_snake(gui, in).game_over
         /\ GuiFrame(move_snake(gui, in)) = GuiFrame(gui)

\* A collision right after a pickup: the growth was pending and the score set.
C4_Witness ==
  /\ Terminal
  /\ game.game_over
  /\ Collided(game.snake.body, HEIGHT, WIDTH)
  /\ game.score > 0
  /\ Len(game.snake.body) = game.snake.body_length

\* The GUI snake after the head is put in front and, unless the head is on the
\* food, the tail is dropped.
GuiMoved ==
  IF GuiNewHead(gui) = gui.food_pos
  THEN <<GuiNewHead(gui)>> \o gui.snake
  ELSE <<GuiNewHead(gui)>> \o SubSeq(gui.snake, 1, Len(gui.snake) - 1)

\* C5: a tick sets game_over exactly when, once the head is put in front and
\* the tail dropped, the head is off the grid or on a body cell behind it; a
\* head on the cell the tail has just left is no collision.  (A tick that
\* fills the grid also ends the GUI game: C3.)
C5_CollisionAfterTailDrop ==
  /\ Terminal /\ ~game.game_over =>
       \A in \in TerminalInputs :
         update(game, in).game_over
           <=> Collided(move(game.snake).body, HEIGHT, WIDTH)
  /\ GuiTicking =>
       \A in \in GuiInputs :
         move_snake(gui, in).food_pos # None =>
           (move_snake(gui, in).game_over
              <=> Collided(GuiMoved, GRID_HEIGHT, GRID_WIDTH))

\* C6 as claimed: a request for the opposite of the heading changes nothing,
\* and a request for any other direction is taken.
C6_TurnTakenUnlessOpposite ==
  /\ Terminal =>
       \A d \in Directions :
         change_direction(game.snake, d) =
           IF d = Opposite(game.snake.direction) THEN game.snake
           ELSE [game.snake EXCEPT !.direction = d]
  /\ Gui =>
       \A d \in Directions :
         set_direction(gui, d) =
           IF d = Opposite(gui.direction) THEN gui
           ELSE [gui EXCEPT !.next_direction = d]

\* C6 as amended: a request for the opposite of the heading changes nothing;
\* a request for any other direction is taken, in the GUI as long as the
\* session is running, not paused and not over.
C6_TurnTakenWhileRunning ==
  /\ Terminal =>
       \A d \in Directions :
         change_direction(game.snake, d) =
           IF d = Opposite(game.snake.direction) THEN game.snake
           ELSE [game.snake EXCEPT !.direction = d]
  /\ Gui =>
       \A d \in Directions :
         set_direction(gui, d) =
           IF d = Opposite(gui.direction) \/ ~GuiTicking THEN gui
           ELSE [gui EXCEPT !.next_direction = d]

\* A turn has been taken in a terminal session with a body behind the head.
C6_Witness ==
  /\ Terminal
  /\ game.snake.direction = UP
  /\ Len(game.snake.body) > 1
  /\ ~game.game_over

\* C7: in the terminal game no move uses the opposite of the direction of the
\* move before it: the head never moves onto the cell right behind it.
C7_NoReversalBetweenMoves ==
  [][(Terminal /\ Len(game.snake.body) >= 2
        /\ game'.snake.body # game.snake.body)
       => head(game'.snake) # game.snake.body[2]]_vars

\* C8: a direction event changes next_direction and nothing else, a tick
\* applies next_direction, and the direction a tick applies is never the
\* opposite of the direction the tick before it applied.
C8_NoReversalBetweenTicks ==
  Gui =>
    /\ \A d \in Directions :
         [set_direction(gui, d) EXCEPT !.next_direction = gui.next_direction]
           = gui
    /\ GuiTicking =>
         \A in \in GuiInputs :
           /\ move_snake(gui, in).direction = gui.next_direction
           /\ move_snake(gui, in).direction # Opposite(gui.direction)

\* A turn is waiting for the next tick.
C8_Witness ==
  /\ GuiTicking
  /\ gui.next_direction # gui.direction
  /\ Len(gui.snake) > 1

\* C9: a move puts the head on the old head plus the direction of the move,
\* off the grid if need be.  The GUI moves the snake on every tick that does
\* not end in a collision.
C9_HeadAdvancesByDirection ==
  /\ Terminal /\ ~game.game_over =>
       \A in \in TerminalInputs :
         head(update(game, in).snake)
           = Plus(head(game.snake), game.snake.direction)
  /\ GuiTicking =>
       \A in \in GuiInputs :
         IF GuiTickCollides
         THEN move_snake(gui, in).snake = gui.snake
         ELSE move_snake(gui, in).snake[1]
                = Plus(gui.snake[1], move_snake(gui, in).direction)

\* The head has left the grid: the move has not been clamped.
C9_Witness ==
  /\ Terminal
  /\ ~InGrid(head(game.snake), HEIGHT, WIDTH)
  /\ Len(game.snake.body) > 1

\* The tick from this state is a pickup.
TerminalTickPicksUp == head(move(game.snake)) = game.food

GuiTickPicksUp == GuiNewHead(gui) = gui.food_pos

\* C10 as claimed: on a tick without collision the number of body cells grows
\* by one if the tick is a pickup or a growth is pending, and stays otherwise;
\* on no tick does it go down or grow by more than one.
C10_LengthGrowsOnPickup ==
  /\ Terminal /\ ~game.game_over =>
       \A in \in TerminalInputs :
         LET before == Len(game.snake.body)
             after == Len(update(game, in).snake.body)
         IN  /\ after \in {before, before + 1}
             /\ ~update(game, in).game_over =>
                  after = IF TerminalTickPicksUp \/ game.snake.grow_next
                          THEN before + 1 ELSE before
  /\ GuiTicking =>
       \A in \in GuiInputs :
         LET before == Len(gui.snake)
             after == Len(move_snake(gui, in).snake)
         IN  /\ after \in {before, before + 1}
             /\ ~GuiTickCollides =>
                  after = IF GuiTickPicksUp THEN before + 1 ELSE before

\* C10 as amended: on a tick without collision the number of body cells grows
\* by one if a growth is pending from the tick before (terminal game) or if
\* the tick is a pickup (GUI), and stays otherwise; on no tick does it go down
\* or grow by more than one.
C10_LengthGrowsByPendingGrowth ==
  /\ Terminal /\ ~game.game_over =>
       \A in \in TerminalInputs :
         LET before == Len(game.snake.body)
             after == Len(update(game, in).snake.body)
         IN  /\ after \in {before, before + 1}
             /\ ~update(game, in).game_over =>
                  after = IF game.snake.grow_next THEN before + 1 ELSE before
  /\ GuiTicking =>
       \A in \in GuiInputs :
         LET before == Len(gui.snake)
             after == Len(move_snake(gui, in).snake)
         IN  /\ after \in {before, before + 1}
             /\ ~GuiTickCollides =>
                  after = IF GuiTickPicksUp THEN before + 1 ELSE before

\* A terminal session between a pickup and the move that lengthens the body.
C10_Witness ==
  /\ Terminal
  /\ ~game.game_over
  /\ game.snake.grow_next
  /\ Len(game.snake.body) > 1

\* C11: growth is deferred by one tick: the tick whose head reaches the food
\* leaves the body as long as it was (no growth pending from the tick before)
\* and the next move makes it one cell longer.
C11_GrowthDeferredOneTick ==
  /\ Terminal /\ ~game.game_over /\ ~TerminalTickCollides =>
       \A in \in TerminalInputs :
         /\ TerminalTickPicksUp /\ ~game.snake.grow_next =>
              /\ Len(update(game, in).snake.body) = Len(game.snake.body)
              /\ update(game, in).snake.grow_next
         /\ game.snake.grow_next =>
              Len(update(game, in).snake.body) = Len(game.snake.body) + 1
  /\ GuiTicking /\ ~GuiTickCollides /\ GuiTickPicksUp =>
       \A in \in GuiInputs :
         Len(move_snake(gui, in).snake) = Len(gui.snake)

\* C12: the file counts a completed word once: over a session that starts
\* with no file, words_completed is 1 if the word has been completed and 0
\* otherwise, however long the session goes on and however it ends.
C12_StatsOncePerCompletedWord ==
  /\ Terminal =>
       load_stats(stats_file).words_completed =
         IF game.letters_collected >= Len(game.target_word) THEN 1 ELSE 0
  /\ Gui =>
       load_stats(stats_file).words_completed =
         IF gui.letters_collected >= Len(gui.target_word) THEN 1 ELSE 0

\* C13: only the pickup that makes letters_collected equal to the length of
\* the word adds the completion bonus: any other pickup adds the 10 points
\* and the letter bonus of at most 20 times the multiplier, and no more.
C13_CompletionBonusOnce ==
  /\ (Terminal /\ ~game.game_over /\ TerminalTickPicksUp
        /\ game.letters_collected + 1 # Len(game.target_word)) =>
       \A in \in TerminalInputs :
         update(game, in).score - game.score
           <= 10 + 20 * difficulty_multiplier(game.difficulty)
  /\ (GuiTicking /\ ~GuiTickCollides /\ GuiTickPicksUp
        /\ gui.letters_collected + 1 # Len(gui.target_word)) =>
       \A in \in GuiInputs :
         move_snake(gui, in).score - gui.score
           <= 10 + 20 * difficulty_multiplier(gui.difficulty)

\* The points a pickup adds for the letter: the change of the score less the
\* completion bonus, where the pickup completes the word.
TerminalLetterPoints(in) ==
  LET after == update(game, in)
  IN  after.score - game.score
        - IF after.letters_collected >= Len(after.target_word)
          THEN handle_word_completion(after, in.completion_time).score
                 - after.score
          ELSE 0

GuiLetterPoints(in) ==
  LET after == move_snake(gui, in)
  IN  after.score - gui.score
        - IF after.letters_collected >= Len(after.target_word)
          THEN gui_handle_word_completion(after, in.completion_time).score
                 - after.score
          ELSE 0

Multiplier(difficulty) ==
  IF difficulty = "easy" THEN 1 ELSE IF difficulty = "medium" THEN 2 ELSE 3

\* 20 less the whole seconds of an elapsed time, not below 0.
WholeSecondBonus(elapsed) ==
  IF elapsed \div TimeUnit >= 20 THEN 0 ELSE 20 - elapsed \div TimeUnit

\* 20 less the elapsed time, fractions of a second included, cut to an
\* integer and not below 0.
TruncatedBonus(elapsed) ==
  IF elapsed >= 20 * TimeUnit THEN 0
  ELSE (20 * TimeUnit - elapsed) \div TimeUnit

\* A tick of the running session that picks up.
TerminalPickup == Terminal /\ ~game.game_over /\ TerminalTickPicksUp

GuiPickup == GuiTicking /\ ~GuiTickCollides /\ GuiTickPicksUp

\* C14 as claimed: a pickup adds 10 + max(0, 20 - elapsed) * m points for
\* the letter, elapsed being the whole seconds since the pickup before it
\* (or since the start of the session), m being 1, 2, 3 for easy, medium, hard.
C14_PointsByWholeSeconds ==
  /\ TerminalPickup =>
       \A in \in UpdateInputs(game) :
         TerminalLetterPoints(in) =
           10 + WholeSecondBonus(in.current_time - game.last_letter_time)
                  * Multiplier(game.difficulty)
  /\ GuiPickup =>
       \A in \in MoveInputs(gui) :
         GuiLetterPoints(in) =
           10 + WholeSecondBonus(in.current_time - gui.last_letter_time)
                  * Multiplier(gui.difficulty)

\* C14 as amended: a pickup adds 10 + max(0, trunc(20 - elapsed)) * m points
\* for the letter, elapsed being the time since the pickup before it (or since
\* the start of the session) with its fraction of a second; the points are
\* between 10 and 10 + 20 * m.
C14_PointsByTruncatedRest ==
  /\ TerminalPickup =>
       \A in \in UpdateInputs(game) :
         /\ TerminalLetterPoints(in) =
              10 + TruncatedBonus(in.current_time - game.last_letter_time)
                     * Multiplier(game.difficulty)
         /\ TerminalLetterPoints(in) >= 10
         /\ TerminalLetterPoints(in) <= 10 + 20 * Multiplier(game.difficulty)
  /\ GuiPickup =>
       \A in \in MoveInputs(gui) :
         /\ GuiLetterPoints(in) =
              10 + TruncatedBonus(in.current_time - gui.last_letter_time)
                     * Multiplier(gui.difficulty)
         /\ GuiLetterPoints(in) >= 10
         /\ GuiLetterPoints(in) <= 10 + 20 * Multiplier(gui.difficulty)

\* A second pickup is due half a clock reading short of 20 s after the first.
C14_Witness ==
  /\ TerminalPickup
  /\ game.letters_collected = 1
  /\ game.last_letter_time = 1
  /\ now = 20 * TimeUnit
  /\ game.difficulty = "hard"

\* max(0, 100 - total) cut to an integer, plus 20 per letter of the word.
CompletionBonus(total, target_word) ==
  (IF total >= 100 * TimeUnit THEN 0
   ELSE (100 * TimeUnit - total) \div TimeUnit)
    + 20 * Len(target_word)

\* C15: the pickup that completes the word adds, on top of the points for
\* the letter, max(0, 100 - total) + 20 * len(target_word), total being the
\* time since the session started (the clock counts from there).
C15_CompletionBonusFromSessionStart ==
  /\ TerminalPickup /\ game.letters_collected + 1 = Len(game.target_word) =>
       \A in \in UpdateInputs(game) :
         update(game, in).score - game.score =
           10 + TruncatedBonus(in.current_time - game.last_letter_time)
                  * Multiplier(game.difficulty)
              + CompletionBonus(in.completion_time - game.start_time,
                                game.target_word)
  /\ GuiPickup /\ gui.letters_collected + 1 = Len(gui.target_word) =>
       \A in \in MoveInputs(gui) :
         move_snake(gui, in).score - gui.score =
           10 + TruncatedBonus(in.current_time - gui.last_letter_time)
                  * Multiplier(gui.difficulty)
              + CompletionBonus(in.completion_time, gui.target_word)

\* C16: on easy, when each of the n pickups of a word of n letters takes 20
\* seconds or more (the score of the n - 1 before the last shows no letter
\* bonus), the score after the n-th is 10 * n + 20 * n + max(0, 100 - total).
C16_ScoreOfSlowSession ==
  /\ (TerminalPickup /\ game.difficulty = "easy"
        /\ game.letters_collected + 1 = Len(game.target_word)
        /\ game.score = 10 * game.letters_collected
        /\ now - game.last_letter_time >= 20 * TimeUnit) =>
       \A in \in UpdateInputs(game) :
         update(game, in).score =
           10 * Len(game.target_word)
             + CompletionBonus(now - game.start_time, game.target_word)
  /\ (GuiPickup /\ gui.difficulty = "easy"
        /\ gui.letters_collected + 1 = Len(gui.target_word)
        /\ gui.score = 10 * gui.letters_collected
        /\ now - gui.last_letter_time >= 20 * TimeUnit) =>
       \A in \in MoveInputs(gui) :
         move_snake(gui, in).score =
           10 * Len(gui.target_word) + CompletionBonus(now, gui.target_word)

\* C17: no operation of a session lowers the score; a tick that picks up
\* raises it and a tick that does not leaves it as it is.
C17_ScoreNeverDecreases ==
  /\ Terminal =>
       \A in \in TerminalInputs :
         IF TerminalPickup
         THEN update(game, in).score > game.score
         ELSE update(game, in).score = game.score
  /\ Gui =>
       /\ \A in \in GuiInputs :
            LET moved == move_snake(gui, in).score
            IN  /\ IF GuiPickup THEN moved > gui.score ELSE moved = gui.score
                /\ game_loop(gui, in).score >= gui.score
       /\ \A d \in Directions : set_direction(gui, d).score = gui.score
       /\ toggle_pause(gui).score = gui.score

\* A pickup is due in a session that has scored.
C17_Witness == TerminalPickup /\ game.score > 0

\* Food is absent and the grid full, or food is on a grid cell off the body.
FoodPlaced(food, body, height, width) ==
  IF food = None THEN AllCells(height, width) \subseteq Range(body)
  ELSE InGrid(food, height, width) /\ food \notin Range(body)

\* C18: generate_food, at the creation of a session and after a pickup,
\* leaves food on a grid cell the snake does not occupy, or leaves it absent
\* when the snake occupies every cell.
C18_FoodOnFreeCell ==
  /\ Terminal /\ game.letters_collected = 0
        /\ game.snake.body = <<<<HEIGHT \div 2, WIDTH \div 2>>>> =>
       FoodPlaced(game.food, game.snake.body, HEIGHT, WIDTH)
  /\ TerminalPickup =>
       \A in \in UpdateInputs(game) :
         FoodPlaced(update(game, in).food, update(game, in).snake.body,
                    HEIGHT, WIDTH)
  /\ gui # None /\ ~gui.is_running =>
       \A w \in Words, d \in Difficulties :
         \A f \in GuiFoodChoices(<<<<GRID_HEIGHT \div 2, GRID_WIDTH \div 2>>>>) :
           LET created == gui_generate_food(start_game_setup(gui, w, d, now), f)
           IN  FoodPlaced(created.food_pos, created.snake,
                          GRID_HEIGHT, GRID_WIDTH)
  /\ GuiPickup =>
       \A in \in MoveInputs(gui) :
         FoodPlaced(move_snake(gui, in).food_pos, move_snake(gui, in).snake,
                    GRID_HEIGHT, GRID_WIDTH)

\* A pickup has left the terminal grid without a free cell.
C18_Witness ==
  Terminal /\ game.food = None /\ game.letters_collected > 0

Distinct(body) ==
  \A i, j \in 1..Len(body) : i # j => body[i] # body[j]

\* C19: as long as game_over is false, the body has at least one cell, no
\* cell twice, and every cell on the grid.
C19_LiveBodyOnGrid ==
  /\ Terminal /\ ~game.game_over =>
       /\ Len(game.snake.body) >= 1
       /\ Distinct(game.snake.body)
       /\ \A i \in 1..Len(game.snake.body) :
            InGrid(game.snake.body[i], HEIGHT, WIDTH)
  /\ Gui /\ ~gui.game_over =>
       /\ Len(gui.snake) >= 1
       /\ Distinct(gui.snake)
       /\ \A i \in 1..Len(gui.snake) :
            InGrid(gui.snake[i], GRID_HEIGHT, GRID_WIDTH)

\* A live snake of three cells.
C19_Witness ==
  Terminal /\ ~game.game_over /\ Len(game.snake.body) = 3

\* C20: after k pickups, k below the length of the word (each pickup has made
\* the snake one cell longer: body_length, or the GUI body, is 1 + k), the
\* letter shown on the food is letter k of the word, counting from 0.
C20_FoodShowsNextLetter ==
  /\ (Terminal /\ game.food # None
        /\ game.snake.body_length - 1 < Len(game.target_word)) =>
       food_letter(game) = upper(game.target_word[game.snake.body_length])
  /\ (Gui /\ gui.food_pos # None
        /\ Len(gui.snake) - 1 < Len(gui.target_word)) =>
       gui_food_letter(gui) = upper(gui.target_word[Len(gui.snake)])

\* After the first pickup of a word of two letters.
C20_Witness ==
  /\ Terminal
  /\ game.food # None
  /\ game.snake.body_length = 2
  /\ Len(game.target_word) = 2

\* C21: whatever the statistics file holds (nothing, text that is not JSON,
\* a record without the expected keys) and whether it can be opened or not,
\* the tick that completes the word is not aborted: no exception leaves it,
\* the score and letters_collected of the pickup are applied and new food is
\* placed, so that the session goes on.
C21_StatsFailureKeepsTick ==
  /\ (TerminalPickup
        /\ game.letters_collected + 1 >= Len(game.target_word)) =>
       \A in \in UpdateInputs(game), writable \in BOOLEAN :
         LET out == update_outcome(stats_file, writable, game, in)
         IN  /\ ~out.raised
             /\ out.session.score = update(game, in).score
             /\ out.session.letters_collected = game.letters_collected + 1
             /\ out.session.food = in.food
  /\ (GuiPickup /\ gui.letters_collected + 1 >= Len(gui.target_word)) =>
       \A in \in MoveInputs(gui), writable \in BOOLEAN :
         LET out == move_snake_outcome(stats_file, writable, gui, in)
         IN  /\ ~out.raised
             /\ out.session.score = move_snake(gui, in).score
             /\ out.session.letters_collected = gui.letters_collected + 1
             /\ out.session.food_pos = move_snake(gui, in).food_pos

\* The record of a player who has completed nothing, field by field.
IsZeroedRecord(stats) ==
  /\ DOMAIN stats = StatsKeys
  /\ stats.words_completed = 0
  /\ stats.total_score = 0
  /\ DOMAIN stats.words_by_difficulty = {"easy", "medium", "hard"}
  /\ \A d \in {"easy", "medium", "hard"} : stats.words_by_difficulty[d] = 0
  /\ stats.completed_words = <<>>

InputsOf(g) ==
  AnyInputs(head(move(g.snake)) = g.food, FoodChoices(move(g.snake).body))

\* C24: a running session can be paused by an event and resumed by a second
\* one: while it is paused no tick changes the snake, its direction, the
\* food, the score or letters_collected, and resuming gives back the running
\* session as it was when paused.  In the terminal game the events are the
\* keys the listener thread acts on.
C24_PauseStopsTicks ==
  /\ GuiTicking =>
       LET held == toggle_pause(gui)
       IN  /\ held.paused
           /\ \A in \in GuiInputs :
                /\ game_loop(held, in) = held
                /\ move_snake(held, in) = held
           /\ toggle_pause(held) = gui
  /\ (Terminal /\ ~game.game_over) =>
       \E held \in key_pass_outcomes(game) :
         \A in \in InputsOf(held) :
           /\ update(held, in).snake = held.snake
           /\ update(held, in).food = held.food
           /\ update(held, in).score = held.score
           /\ update(held, in).letters_collected = held.letters_collected

\* C25: whatever the sequence of start_game, collision, Play Again, Main
\* Menu and quit_game, Tk holds at most one game_loop callback, so that
\* the snake is moved at most once per GAME_SPEED interval.
C25_OneGameLoopChain == gui # None => timers <= 1

\* Nothing but blanks, or nothing at all.
IsBlank(entry) == \A i \in 1..Len(entry) : entry[i] = Blank

\* C26: no session has an empty target word: the word get_word_for_difficulty
\* returns and the word start_game is given have at least one letter, and a
\* custom entry that is empty or blank starts no session and changes nothing.
C26_NoEmptyTargetWord ==
  /\ Terminal => Len(game.target_word) >= 1
  /\ Gui => Len(gui.target_word) >= 1
  /\ \A sel \in WordSelections :
       LET got == get_word_for_difficulty(
                    sel.choice, sel.random_word, sel.lines)
       IN  got.returned => Len(got.word) >= 1
  /\ (gui # None /\ (~gui.is_running \/ gui.game_over)) =>
       \A entry \in Entries :
         IsBlank(entry) =>
           /\ use_custom_word(
                gui, entry, gui.difficulty, now, None,
                [current_time |-> now, completion_time |-> now,
                 food |-> None]) = gui
           /\ use_custom_word_file(
                stats_file, gui, entry, gui.difficulty, now, None,
                [current_time |-> now, completion_time |-> now,
                 food |-> None]) = stats_file

\* The word selection screen is open again after a session on "hard" with
\* the longest word.
C26_Witness ==
  /\ Gui
  /\ gui.is_running
  /\ gui.game_over
  /\ gui.difficulty = "hard"
  /\ Len(gui.target_word) = MaxWordLen

\* C27: on the grid of 20 columns and 10 rows a new Snake has its one cell
\* at (5, 10) and heads RIGHT, and one call of move puts the head on (5, 11)
\* with the body still one cell long.
C27_FirstMoveOnSourceGrid ==
  /\ SOURCE_WIDTH = 20
  /\ SOURCE_HEIGHT = 10
  /\ Snake(<<SOURCE_HEIGHT \div 2, SOURCE_WIDTH \div 2>>) =
       [body |-> <<<<5, 10>>>>, direction |-> <<0, 1>>, grow_next |-> FALSE,
        body_length |-> 1]
  /\ (game # None
        /\ game.snake =
             Snake(<<SOURCE_HEIGHT \div 2, SOURCE_WIDTH \div 2>>)) =>
       /\ head(move(game.snake)) = <<5, 11>>
       /\ Len(move(game.snake).body) = 1
       /\ move(game.snake).body_length = 1

\* The new snake has made its first move.
C27_Witness ==
  /\ game # None
  /\ game.snake.body = <<<<5, 11>>>>
  /\ game.snake.direction = RIGHT
  /\ game.snake.body_length = 1

\* The SnakeGame in the state of a Game: the same body, direction, food, word
\* and counters, running and not paused.
SnakeGameLike(g) ==
  [NewSnakeGame EXCEPT
     !.is_running = TRUE,
     !.game_over = g.game_over,
     !.difficulty = g.difficulty,
     !.target_word = g.target_word,
     !.show_hint = g.show_hint,
     !.snake = g.snake.body,
     !.food_pos = g.food,
     !.direction = g.snake.direction,
     !.next_direction = g.snake.direction,
     !.score = g.score,
     !.letters_collected = g.letters_collected,
     !.last_letter_time = g.last_letter_time]

\* A Game and a SnakeGame agree on body, food, letters collected and game over.
SameCore(g, s) ==
  /\ g.snake.body = s.snake
  /\ g.food = s.food_pos
  /\ g.letters_collected = s.letters_collected
  /\ g.game_over = s.game_over

\* C28: the Game and the SnakeGame in the same state, given the same direction
\* and the same food choice, agree on body, food, letters collected and game
\* over after the tick. The ticks compared stay inside the terminal's grid,
\* whose cells are cells of the GUI's grid too, and start with no growth
\* pending, which a SnakeGame has no field for.
C28_SameStateMachine ==
  (/\ Terminal
   /\ ~game.game_over
   /\ ~game.snake.grow_next
   /\ ~check_wall_collision(move(game.snake))) =>
    \A in \in UpdateInputs(game) :
      SameCore(update(game, in), move_snake(SnakeGameLike(game), in))

\* C29: whenever the game is drawn, the body segment i behind the head
\* (i = 1 right behind it) shows letter i of the target word, in upper case,
\* for i up to the length of the word, and no letter beyond: the terminal
\* prints the plain body character there, the GUI draws no text. A terminal
\* segment the head has run into is printed as the head.
C29_BodyLettersFollowWord ==
  /\ Terminal =>
       \A i \in 1..(Len(game.snake.body) - 1) :
         game.snake.body[i + 1] # head(game.snake) =>
           body_cell(game, game.snake.body[i + 1]) =
             IF i <= Len(game.target_word)
             THEN [color |-> "YELLOW", char |-> upper(game.target_word[i])]
             ELSE [color |-> "BLUE", char |-> SNAKE_CHAR]
  /\ (Gui /\ gui.is_running) =>
       \A i \in 1..(Len(gui.snake) - 1) :
         segment_text(gui, i) =
           IF i <= Len(gui.target_word)
           THEN {upper(gui.target_word[i])}
           ELSE {}

\* A snake with a segment for the one letter of its word and one beyond it.
C29_Witness ==
  /\ Terminal
  /\ Len(game.target_word) = 1
  /\ Len(game.snake.body) = 3
  /\ head(game.snake) \notin Range(Tail(game.snake.body))

\* The same in the GUI, as drawn by a running session.
C29_GuiWitness ==
  /\ Gui
  /\ gui.is_running
  /\ Len(gui.target_word) = 1
  /\ Len(gui.snake) = 3

\* C30: the progress the terminal shows, computed from body_length, is never
\* below 0 nor above the length of the target word, and it is the number of
\* letters collected, clamped to the length of the word.
C30_ProgressClamped ==
  Terminal =>
    /\ progress(game) \in 0..Len(game.target_word)
    /\ progress(game) =
         IF game.letters_collected < Len(game.target_word)
         THEN game.letters_collected
         ELSE Len(game.target_word)

\* More pickups than the word has letters: the clamp decides the value.
C30_Witness ==
  /\ Terminal
  /\ game.snake.body_length - 1 > Len(game.target_word)
  /\ game.letters_collected > Len(game.target_word)

C31_TerminalWitness ==
  /\ Terminal
  /\ ~game.game_over
  /\ game.food # None
  /\ check_collision_with_self(move(game.snake))

\* C32: between the ticks of the terminal variant, body_length is the number
\* of body cells plus one for a growth still pending, and it is one more than
\* the number of letters collected.
C32_BodyLengthAccounts ==
  Terminal =>
    /\ game.snake.body_length =
         Len(game.snake.body) + IF game.snake.grow_next THEN 1 ELSE 0
    /\ game.snake.body_length = 1 + game.letters_collected

\* A second pickup right after the growth of the first.
C32_Witness ==
  /\ Terminal
  /\ game.snake.grow_next
  /\ Len(game.snake.body) = 2
  /\ game.letters_collected = 2

\* The Games k calls of update can leave, no key pressed in between, whatever
\* food generate_food chooses.
RECURSIVE AfterUpdates(_, _)
AfterUpdates(games, k) ==
  IF k = 0 THEN games
  ELSE AfterUpdates(
         UNION {{update(g, in) : in \in UpdateInputs(g)} : g \in games}, k - 1)

\* The same for the calls of move_snake by game_loop, no key pressed.
RECURSIVE AfterMoves(_, _)
AfterMoves(sessions, k) ==
  IF k = 0 THEN sessions
  ELSE AfterMoves(
         UNION {{move_snake(g, in) : in \in MoveInputs(g)} : g \in sessions},
         k - 1)

\* The Snake after k calls of move.
RECURSIVE Moves(_, _)
Moves(s, k) == IF k = 0 THEN s ELSE Moves(move(s), k - 1)

\* The new Snake of the source's grid going straight: on the grid after each
\* of the first 9 moves, off it after the 10th.
SourceStraightRun ==
  LET fresh == Snake(<<SOURCE_HEIGHT \div 2, SOURCE_WIDTH \div 2>>)
  IN  /\ \A k \in 0..9 :
           InGrid(head(Moves(fresh, k)), SOURCE_HEIGHT, SOURCE_WIDTH)
      /\ ~InGrid(head(Moves(fresh, 10)), SOURCE_HEIGHT, SOURCE_WIDTH)

LongerSide(height, width) == IF height > width THEN height ELSE width

\* C33: a session that is running and not paused, given no direction event,
\* is over after as many ticks as the longer side of its grid has cells, at
\* the latest. A new terminal session given no input is over on the update
\* that takes the head from the centre column past the last column and on no
\* earlier one; with the 20 columns of the source that is the 10th update.
C33_StraightRunEnds ==
  /\ (Terminal /\ ~game.game_over) =>
       \A g \in AfterUpdates({game}, LongerSide(HEIGHT, WIDTH)) : g.game_over
  /\ GuiTicking =>
       \A g \in AfterMoves({gui}, LongerSide(GRID_HEIGHT, GRID_WIDTH)) :
         g.game_over
  /\ (Terminal /\ ~game.game_over
        /\ game.snake = Snake(<<HEIGHT \div 2, WIDTH \div 2>>)) =>
       /\ \A k \in 0..(WIDTH - WIDTH \div 2 - 1) :
            \A g \in AfterUpdates({game}, k) : ~g.game_over
       /\ \A g \in AfterUpdates({game}, WIDTH - WIDTH \div 2) : g.game_over
  /\ SOURCE_WIDTH - SOURCE_WIDTH \div 2 = 10
  /\ SourceStraightRun

\* A snake that needs every one of the ticks allowed: its head in the first
\* column, heading right along the longer side of the GUI grid.
C33_Witness ==
  /\ GuiTicking
  /\ gui.snake[1][2] = 0
  /\ gui.next_direction = RIGHT
  /\ \E g \in AfterMoves({gui}, LongerSide(GRID_HEIGHT, GRID_WIDTH) - 1) :
       ~g.game_over

\* The session whose update_stats has just run.
StatsCaller == IF game # None THEN game ELSE gui

\* C34: update_stats called any number of times from the zeroed record keeps
\* completed_words free of repetitions and words_completed equal to the sum
\* of the three counts of words_by_difficulty, and each call adds the score
\* of its session to total_score, which so is the sum of the scores passed.
C34_RecordStaysConsistent ==
  /\ [](LET stats == load_stats(stats_file)
        IN  /\ Distinct(stats.completed_words)
            /\ stats.words_completed =
                 stats.words_by_difficulty["easy"]
                   + stats.words_by_difficulty["medium"]
                   + stats.words_by_difficulty["hard"]
            /\ stats_file = None => stats.total_score = 0)
  /\ [][load_stats(stats_file').total_score =
          load_stats(stats_file).total_score + StatsCaller'.score]_vars

\* The same word completed a second time, in another difficulty.
C34_Witness ==
  /\ stats_file # None
  /\ stats_file.words_completed = 3
  /\ Len(stats_file.completed_words) = 1
  /\ stats_file.words_by_difficulty["easy"] = 1
  /\ stats_file.words_by_difficulty["hard"] = 2
  /\ stats_file.total_score = 2 * MaxScore

\* C35: in a session that is running, the hint key flips show_hint and
\* leaves the rest of the session as it is, so that pressing it twice gives
\* back the session as it was.
C35_HintKeyToggles ==
  /\ (Terminal /\ ~game.game_over) =>
       /\ key_listener_h(game) = [game EXCEPT !.show_hint = ~@]
       /\ key_listener_h(key_listener_h(game)) = game
  /\ (Gui /\ gui.is_running /\ ~gui.game_over) =>
       /\ toggle_hint(gui) = [gui EXCEPT !.show_hint = ~@]
       /\ toggle_hint(toggle_hint(gui)) = gui

\* A Game as new: nothing scored or collected, not over, a snake of one cell
\* at the centre heading RIGHT, food on another cell.
FreshGame(g) ==
  /\ g.score = 0
  /\ g.letters_collected = 0
  /\ ~g.game_over
  /\ g.snake.body = <<<<HEIGHT \div 2, WIDTH \div 2>>>>
  /\ g.snake.body_length = 1
  /\ g.snake.direction = RIGHT
  /\ g.food # None
  /\ InGrid(g.food, HEIGHT, WIDTH)
  /\ g.food \notin Range(g.snake.body)

FreshSnakeGame(g) ==
  /\ g.score = 0
  /\ g.letters_collected = 0
  /\ ~g.game_over
  /\ ~g.paused
  /\ g.snake = <<<<GRID_HEIGHT \div 2, GRID_WIDTH \div 2>>>>
  /\ g.direction = RIGHT
  /\ g.next_direction = RIGHT
  /\ g.food_pos # None
  /\ InGrid(g.food_pos, GRID_HEIGHT, GRID_WIDTH)
  /\ g.food_pos \notin Range(g.snake)

\* A terminal session that 'r' can replace; a GUI session that Play Again or
\* the main menu and a new game can replace.
TerminalRestartable == Terminal /\ game.game_over

GuiRestartable == Gui /\ (gui.game_over \/ ~gui.is_running)

\* C36 as claimed: whatever state the session before has ended in, the
\* session a restart leaves is new: score 0, no letter collected, not over,
\* not paused, a snake of one cell at the centre heading RIGHT, and food on
\* a cell the snake is not on.
C36_RestartLeavesFreshSession ==
  /\ TerminalRestartable =>
       \A w \in Words, d \in Difficulties :
         \A f \in FoodChoices(<<<<HEIGHT \div 2, WIDTH \div 2>>>>) :
           FreshGame(generate_food(NewGame(w, d, now), f))
  /\ GuiRestartable =>
       \A w \in Words, d \in Difficulties :
         \A f \in GuiFoodChoices(<<<<GRID_HEIGHT \div 2, GRID_WIDTH \div 2>>>>) :
           \A in \in MoveInputs(
                       gui_generate_food(start_game_setup(gui, w, d, now), f)) :
             FreshSnakeGame(start_game(gui, w, d, now, f, in))

\* C36 amended: a restart sets up a new session whatever state the session
\* before has ended in; the terminal leaves it at that, while start_game of
\* the GUI runs the first tick on it before it returns.
C36_RestartSetsUpFreshSession ==
  /\ TerminalRestartable =>
       \A w \in Words, d \in Difficulties :
         \A f \in FoodChoices(<<<<HEIGHT \div 2, WIDTH \div 2>>>>) :
           FreshGame(generate_food(NewGame(w, d, now), f))
  /\ GuiRestartable =>
       \A w \in Words, d \in Difficulties :
         \A f \in GuiFoodChoices(<<<<GRID_HEIGHT \div 2, GRID_WIDTH \div 2>>>>) :
           LET created == gui_generate_food(start_game_setup(gui, w, d, now), f)
           IN  /\ FreshSnakeGame(created)
               /\ \A in \in MoveInputs(created) :
                    start_game(gui, w, d, now, f, in) = move_snake(created, in)

\* Play Again has started a session after one that had completed its word.
C36_Witness ==
  /\ Gui
  /\ timers = 2
  /\ stats_file # None
  /\ gui.is_running
  /\ ~gui.game_over
  /\ gui.score = 0
  /\ Len(gui.snake) = 1

====
